---- MODULE Spec2Model ----
(***************************************************************************)
(* ReminderServer: the task store, the connection registry and the         *)
(* scheduler loop of src/task.py, driven by the request handlers of        *)
(* src/main.py.                                                            *)
(*                                                                         *)
(* Task objects are mutable and shared by reference between the store      *)
(* (self._tasks), the scheduler's snapshot (self._tasks.copy()) and the    *)
(* task being fired, so the model keeps a heap obj of task objects and     *)
(* sequences of references.  The scheduler is one asyncio task: request    *)
(* handlers run only while it is suspended in an await (send_text or       *)
(* asyncio.sleep) or after it has finished.                                *)
(***************************************************************************)
EXTENDS Integers, Sequences, FiniteSets, TLC

\* ------------------------------------------------------------------ bounds
MaxTasks == 2          \* tasks in the store at one time
MaxObjs  == 2          \* Task objects ever constructed
MaxClk   == 2          \* instants the wall clock passes through
MaxSock  == 2          \* websocket handles
MaxUser  == 2          \* user ids
MaxIdObjs == 3         \* Task objects ever constructed, in IdSpec
MaxDays  == 3          \* every interval from 1 to MaxDays is advanced by
MaxAdvances == 2       \* advances of one date, in DateSpec
MaxStallClk == 3       \* instants the wall clock passes through, in StallSpec

Users   == 1..MaxUser
Sockets == 1..MaxSock

\* Optional[int]: None is the empty sequence, a present value n is <<n>>
None     == <<>>
Some(n)  == <<n>>
IsNone(x) == x = <<>>
Val(x)   == x[1]

\* the <<repeat_days, repeat_count>> pairs a create request may carry
Recurrences ==
    {<<None, None>>, <<Some(1), None>>, <<Some(1), Some(0)>>,
     <<Some(1), Some(2)>>}

\* ---------------------------------------------------------------- calendar
\* datetime(year, month, day, hour, minute) and datetime + timedelta(days)
IsLeap(y) == (y % 4 = 0) /\ ((y % 100 # 0) \/ (y % 400 = 0))

DaysInMonth(y, m) ==
    IF m = 2 THEN (IF IsLeap(y) THEN 29 ELSE 28)
    ELSE IF m \in {4, 6, 9, 11} THEN 30 ELSE 31

DaysBeforeYear(y) ==
    LET p == y - 1 IN p * 365 + (p \div 4) - (p \div 100) + (p \div 400)

RECURSIVE DaysBeforeMonth(_, _)
DaysBeforeMonth(y, m) ==
    IF m <= 1 THEN 0 ELSE DaysBeforeMonth(y, m - 1) + DaysInMonth(y, m - 1)

Ymd2Ord(y, m, d) == DaysBeforeYear(y) + DaysBeforeMonth(y, m) + d

\* the month of day-of-year n (1-based) in year y, searching upward from m
RECURSIVE MonthOf(_, _, _)
MonthOf(y, n, m) ==
    IF n <= DaysBeforeMonth(y, m) + DaysInMonth(y, m) THEN m
    ELSE MonthOf(y, n, m + 1)

\* the year containing ordinal n, searching from year y
RECURSIVE YearOf(_, _)
YearOf(n, y) ==
    IF n <= DaysBeforeYear(y) THEN YearOf(n, y - 1)
    ELSE IF n > DaysBeforeYear(y + 1) THEN YearOf(n, y + 1)
    ELSE y

Ord2Ymd(n) ==
    LET y   == YearOf(n, 1 + (n \div 366))
        doy == n - DaysBeforeYear(y)
        m   == MonthOf(y, doy, 1)
    IN  [year |-> y, month |-> m, day |-> doy - DaysBeforeMonth(y, m)]

\* TaskDate(year, month, day, hour, minute)
TaskDate(y, mo, d, h, mi) ==
    [year |-> y, month |-> mo, day |-> d, hour |-> h, minute |-> mi]

\* TaskDate.to_datetime: the absolute instant, in minutes
to_datetime(td) ==
    (Ymd2Ord(td.year, td.month, td.day) * 24 + td.hour) * 60 + td.minute

\* the slip "add the interval to the day field"
add_days_in_month(td, days) == [td EXCEPT !.day = td.day + days]

\* TaskDate.add_days: only year, month and day are written back
add_days(td, days) ==
    LET n == Ymd2Ord(td.year, td.month, td.day) + days
        r == Ord2Ymd(n)
    IN  [td EXCEPT !.year = r.year, !.month = r.month, !.day = r.day]

DateLt(a, b) == to_datetime(a) < to_datetime(b)
DateEq(a, b) == to_datetime(a) = to_datetime(b)

\* the instants the clock passes through: one per day from BaseDate on
BaseDate == TaskDate(2024, 2, 28, 9, 0)
ClockAt(i) == add_days(BaseDate, i - 1)
Dates == {ClockAt(i) : i \in 1..MaxClk}

\* ------------------------------------------------------------------- state
VARIABLES
    obj,         \* heap: reference -> Task object
    nextRef,     \* next unused reference
    tasks,       \* TaskManager._tasks: sequence of references
    disk,        \* tasks.json: sequence of task dicts
    conns,       \* ConnectionManager.active_connections
    clk,         \* index of the current wall-clock instant
    pc,          \* position of the _check_tasks_loop coroutine
    snapshot,    \* the self._tasks.copy() being iterated
    idx,         \* position in snapshot
    connIter,    \* the list object the "for conn in ..." iterator walks
    connAlias,   \* TRUE while connIter is still active_connections itself
    cidx,        \* position in connIter
    nfired,      \* history: reference -> number of firings
    passFired,   \* history: reference -> firings in the current pass
    orig,        \* history: reference -> the task as created
    attempted,   \* history: sockets send_text was called on in this firing
    handler      \* position of each websocket_endpoint coroutine

vars == <<obj, nextRef, tasks, disk, conns, clk, pc, snapshot, idx, connIter,
          connAlias, cidx, nfired, passFired, orig, attempted, handler>>

now == ClockAt(clk)

\* ------------------------------------------------------------ task objects
TaskStatus == {"PENDING", "TIMEUP", "OUTDATED"}

\* the slip "due from its date on"
time_check_late(t) ==
    IF DateLt(now, t.date) THEN "PENDING" ELSE "TIMEUP"

\* Task.time_check
time_check(t) ==
    IF DateLt(t.date, now) THEN "OUTDATED"
    ELSE IF DateEq(t.date, now) THEN "TIMEUP"
    ELSE "PENDING"

\* "not self.repeat_days": None and 0 are both falsy
NoRepeat(t) == IsNone(t.repeat_days) \/ Val(t.repeat_days) = 0

\* Task.update_next_occurrence: the task after the call
update_next_occurrence(t) ==
    IF NoRepeat(t) THEN t
    ELSE LET moved == [t EXCEPT !.date = add_days(t.date, Val(t.repeat_days))]
         IN  IF IsNone(t.repeat_count) THEN moved
             ELSE [moved EXCEPT !.repeat_count = Some(Val(t.repeat_count) - 1)]

\* Task.update_next_occurrence: the value returned
continues(t) ==
    IF NoRepeat(t) THEN FALSE
    ELSE IF IsNone(t.repeat_count) THEN TRUE
    ELSE Val(t.repeat_count) - 1 > 0

\* Task.to_dict
to_dict(t) ==
    [id |-> t.id, user_id |-> t.user_id,
     date |-> [year |-> t.date.year, month |-> t.date.month, day |-> t.date.day,
               hour |-> t.date.hour, minute |-> t.date.minute],
     repeat_days |-> t.repeat_days, repeat_count |-> t.repeat_count]

\* ------------------------------------------------------------------- store
RECURSIVE SelectRefs(_, _, _)
\* [task for task in s if task.id != id]
SelectRefs(s, o, id) ==
    IF s = <<>> THEN <<>>
    ELSE LET rest == SelectRefs(Tail(s), o, id)
         IN  IF o[Head(s)].id # id THEN <<Head(s)>> \o rest ELSE rest

\* TaskManager._save_tasks: the file written for store s over heap o
save_tasks(s, o) == [i \in 1..Len(s) |-> to_dict(o[s[i]])]

\* TaskManager.remove_task: the store after the call
remove_task(s, o, id) == SelectRefs(s, o, id)

\* TaskManager.add_task: the store after the call
add_task(s, r) == Append(s, r)

\* TaskManager.get_task: the first task with this id, 0 when there is none
get_task(id) ==
    IF \E i \in 1..Len(tasks) : obj[tasks[i]].id = id
    THEN tasks[CHOOSE i \in 1..Len(tasks) :
                  /\ obj[tasks[i]].id = id
                  /\ \A j \in 1..(i - 1) : obj[tasks[j]].id # id]
    ELSE 0

\* TaskManager.get_tasks: self._tasks.copy(), a new list of the same Task
\* objects
get_tasks(s) == s

RECURSIVE get_tasks_by_id(_, _, _)
\* the slip "compare the task's id with the user id"
get_tasks_by_id(s, o, u) ==
    IF s = <<>> THEN <<>>
    ELSE LET rest == get_tasks_by_id(Tail(s), o, u)
         IN  IF o[Head(s)].id = u THEN <<Head(s)>> \o rest ELSE rest

RECURSIVE get_tasks_by_user_id(_, _, _)
\* TaskManager.get_tasks_by_user_id:
\* [task for task in self._tasks if task.user_id == user_id]
get_tasks_by_user_id(s, o, u) ==
    IF s = <<>> THEN <<>>
    ELSE LET rest == get_tasks_by_user_id(Tail(s), o, u)
         IN  IF o[Head(s)].user_id = u THEN <<Head(s)>> \o rest ELSE rest

StoreIds == {obj[tasks[i]].id : i \in 1..Len(tasks)}
StoreRefs == {tasks[i] : i \in 1..Len(tasks)}

SetMax(S) == CHOOSE x \in S : \A y \in S : y <= x

\* the slip "the id is the number of tasks in the store"
new_id_count(ids) == Cardinality(ids)

\* create_task: max(existing_ids, default=-1) + 1
new_id(ids) == IF ids = {} THEN 0 ELSE SetMax(ids) + 1

\* a Task object nothing refers to any more has been reclaimed
Freed == [id |-> -1, user_id |-> 0, date |-> BaseDate,
          repeat_days |-> None, repeat_count |-> None]

\* the references held by the store and by the rest of a snapshot from i on
Live(ts, snap, i) ==
    {ts[k] : k \in 1..Len(ts)} \cup {snap[k] : k \in i..Len(snap)}

Collect(o, ts, snap, i) ==
    [r \in DOMAIN o |-> IF r \in Live(ts, snap, i) THEN o[r] ELSE Freed]

CollectCount(c, ts, snap, i) ==
    [r \in DOMAIN c |-> IF r \in Live(ts, snap, i) THEN c[r] ELSE 0]

\* the scheduler coroutine is suspended in an await, or has ended with an
\* exception; after close() the manager is shut down and serves nothing
Suspended == pc \in {"sleep", "send", "dead"}

\* ---------------------------------------------------------------- initial
Init ==
    /\ obj = <<>>
    /\ nextRef = 1
    /\ tasks = <<>>
    /\ disk = <<>>
    /\ conns = <<>>
    /\ clk = 1
    /\ pc = "sleep"
    /\ snapshot = <<>>
    /\ idx = 1
    /\ connIter = <<>>
    /\ connAlias = FALSE
    /\ cidx = 1
    /\ nfired = <<>>
    /\ passFired = <<>>
    /\ orig = <<>>
    /\ attempted = {}
    /\ handler = [w \in Sockets |-> "new"]

\* ------------------------------------------------------- request handlers
\* the wall clock moves on; time passes at any point of any coroutine
TickUpTo(limit) ==
    /\ clk < limit
    /\ pc # "cancelled"
    /\ clk' = clk + 1
    /\ UNCHANGED <<obj, nextRef, tasks, disk, conns, pc, snapshot, idx,
                   connIter, connAlias, cidx, nfired, passFired, orig,
                   attempted, handler>>

Tick == TickUpTo(MaxClk)

\* POST /api/tasks: create_task, which has no await between reading the ids
\* and add_task
CreateTaskUpTo(limit, u, dt, d, r) ==
    /\ Suspended
    /\ Len(tasks) < MaxTasks
    /\ nextRef <= limit
    /\ LET t == [id |-> new_id(StoreIds), user_id |-> u, date |-> dt,
                 repeat_days |-> d, repeat_count |-> r]
       IN  /\ obj' = Append(obj, t)
           /\ orig' = Append(orig, t)
    /\ tasks' = add_task(tasks, nextRef)
    /\ disk' = save_tasks(tasks', obj')
    /\ nextRef' = nextRef + 1
    /\ nfired' = Append(nfired, 0)
    /\ passFired' = Append(passFired, 0)
    /\ UNCHANGED <<conns, clk, pc, snapshot, idx, connIter, connAlias, cidx,
                   attempted, handler>>

CreateTask(u, dt, d, r) == CreateTaskUpTo(MaxObjs, u, dt, d, r)

\* DELETE /api/tasks/{task_id}: 404 and 403 return before remove_task
DeleteTask(id, u) ==
    /\ Suspended
    /\ get_task(id) # 0
    /\ obj[get_task(id)].user_id = u
    /\ tasks' = remove_task(tasks, obj, id)
    /\ disk' = save_tasks(tasks', obj)
    /\ obj' = Collect(obj, tasks', snapshot, idx)
    /\ orig' = Collect(orig, tasks', snapshot, idx)
    /\ nfired' = CollectCount(nfired, tasks', snapshot, idx)
    /\ passFired' = CollectCount(passFired, tasks', snapshot, idx)
    /\ UNCHANGED <<nextRef, conns, clk, pc, snapshot, idx, connIter,
                   connAlias, cidx, attempted, handler>>

SocketsOf(cs) == {cs[i].websocket : i \in 1..Len(cs)}
SocketsOfUser(cs, u) ==
    {cs[i].websocket : i \in {j \in 1..Len(cs) : cs[j].user_id = u}}

\* the slip "== for !=": [x for x in cs if x["websocket"] == w]
OnlySocket(cs, w) == SelectSeq(cs, LAMBDA x : x.websocket = w)

RECURSIVE WithoutSocket(_, _)
\* [x for x in cs if x["websocket"] != w]
WithoutSocket(cs, w) ==
    IF cs = <<>> THEN <<>>
    ELSE IF Head(cs).websocket # w
         THEN <<Head(cs)>> \o WithoutSocket(Tail(cs), w)
         ELSE WithoutSocket(Tail(cs), w)

\* a new WebSocket object: the least handle no list refers to
InUse == SocketsOf(conns) \cup SocketsOf(connIter)
FreshSocket ==
    IF Sockets \subseteq InUse THEN 0
    ELSE CHOOSE w \in Sockets \ InUse : \A v \in Sockets \ InUse : w <= v

\* get_id_by_username(websocket.query_params["username"]): the user a
\* websocket's query string names; handles come in pairs of one user
SockUser(w) == (((w - 1) \div 2) % MaxUser) + 1

\* ConnectionManager.connect: append to the list object in place, so an
\* iterator over that same list object sees the new record.  The handler
\* of w has verified its user and been accepted, and waits in receive_text.
Connect(w) ==
    /\ Suspended
    /\ w = FreshSocket
    /\ conns' = Append(conns, [user_id |-> SockUser(w), websocket |-> w])
    /\ connIter' = IF connAlias THEN conns' ELSE connIter
    /\ handler' = [handler EXCEPT ![w] = "open"]
    /\ UNCHANGED <<obj, nextRef, tasks, disk, clk, pc, snapshot, idx,
                   connAlias, cidx, nfired, passFired, orig, attempted>>

\* ConnectionManager.disconnect: rebinds active_connections to a new list,
\* so an iterator keeps walking the old one.  The handler of w has ended
\* and its handle stands for the next WebSocket object.
Disconnect(w) ==
    /\ Suspended
    /\ w \in SocketsOf(conns)
    /\ conns' = WithoutSocket(conns, w)
    /\ connAlias' = FALSE
    /\ handler' = [handler EXCEPT ![w] = "new"]
    /\ UNCHANGED <<obj, nextRef, tasks, disk, clk, pc, snapshot, idx,
                   connIter, cidx, nfired, passFired, orig, attempted>>

\* TaskManager.close: cancel the loop task, then save.  The cancellation is
\* delivered at the await the coroutine is suspended in.
Close ==
    /\ pc \in {"sleep", "send"}
    /\ pc' = "cancelled"
    /\ disk' = save_tasks(tasks, obj)
    /\ UNCHANGED <<obj, nextRef, tasks, conns, clk, snapshot, idx, connIter,
                   connAlias, cidx, nfired, passFired, orig, attempted,
                   handler>>

\* --------------------------------------------------------------- scheduler
cur == snapshot[idx]

\* the slip "stay on a task for as long as it is due"
next_task_while_due(i, t) == IF time_check(t) = "TIMEUP" THEN i ELSE i + 1

\* the for loop of _check_tasks_loop moves to the next task of the snapshot
next_task(i, t) == i + 1

\* while True: for task in self._tasks.copy()
StartPass ==
    /\ pc = "sleep"
    /\ pc' = "check"
    /\ snapshot' = tasks
    /\ idx' = 1
    /\ UNCHANGED <<obj, nextRef, tasks, disk, conns, clk, connIter,
                   connAlias, cidx, nfired, passFired, orig, attempted,
                   handler>>

\* the snapshot is exhausted: await asyncio.sleep(6)
PassDone ==
    /\ pc = "check"
    /\ idx > Len(snapshot)
    /\ pc' = "sleep"
    /\ snapshot' = <<>>
    /\ idx' = 1
    /\ passFired' = [r \in DOMAIN passFired |-> 0]
    /\ UNCHANGED <<obj, nextRef, tasks, disk, conns, clk, connIter,
                   connAlias, cidx, nfired, orig, attempted, handler>>

\* _check_to_announce: task.time_check() is not TIMEUP, nothing happens
SkipTask ==
    /\ pc = "check"
    /\ idx <= Len(snapshot)
    /\ time_check(obj[cur]) # "TIMEUP"
    /\ idx' = next_task(idx, obj[cur])
    /\ obj' = Collect(obj, tasks, snapshot, idx')
    /\ orig' = Collect(orig, tasks, snapshot, idx')
    /\ nfired' = CollectCount(nfired, tasks, snapshot, idx')
    /\ passFired' = CollectCount(passFired, tasks, snapshot, idx')
    /\ UNCHANGED <<nextRef, tasks, disk, conns, clk, pc, snapshot, connIter,
                   connAlias, cidx, attempted, handler>>

\* _check_to_announce: task.time_check() is TIMEUP, the task fires and the
\* iteration over active_connections begins
FireTask ==
    /\ pc = "check"
    /\ idx <= Len(snapshot)
    /\ time_check(obj[cur]) = "TIMEUP"
    /\ pc' = "iter"
    /\ connIter' = conns
    /\ connAlias' = TRUE
    /\ cidx' = 1
    /\ nfired' = [nfired EXCEPT ![cur] = @ + 1]
    /\ passFired' = [passFired EXCEPT ![cur] = @ + 1]
    /\ attempted' = {}
    /\ UNCHANGED <<obj, nextRef, tasks, disk, conns, clk, snapshot, idx, orig,
                   handler>>

\* if conn["user_id"] == task.user_id is false
SkipConn ==
    /\ pc = "iter"
    /\ cidx <= Len(connIter)
    /\ connIter[cidx].user_id # obj[cur].user_id
    /\ cidx' = cidx + 1
    /\ UNCHANGED <<obj, nextRef, tasks, disk, conns, clk, pc, snapshot, idx,
                   connIter, connAlias, nfired, passFired, orig, attempted,
                   handler>>

\* await conn["websocket"].send_text(...) is entered
BeginSend ==
    /\ pc = "iter"
    /\ cidx <= Len(connIter)
    /\ connIter[cidx].user_id = obj[cur].user_id
    /\ pc' = "send"
    /\ attempted' = attempted \cup {connIter[cidx].websocket}
    /\ UNCHANGED <<obj, nextRef, tasks, disk, conns, clk, snapshot, idx,
                   connIter, connAlias, cidx, nfired, passFired, orig,
                   handler>>

\* send_text returns
SendOk ==
    /\ pc = "send"
    /\ pc' = "iter"
    /\ cidx' = cidx + 1
    /\ UNCHANGED <<obj, nextRef, tasks, disk, conns, clk, snapshot, idx,
                   connIter, connAlias, nfired, passFired, orig, attempted,
                   handler>>

\* send_text raises: nothing in _check_to_announce or _check_tasks_loop
\* catches it, so the loop task ends with the exception
SendFail ==
    /\ pc = "send"
    /\ pc' = "dead"
    /\ UNCHANGED <<obj, nextRef, tasks, disk, conns, clk, snapshot, idx,
                   connIter, connAlias, cidx, nfired, passFired, orig,
                   attempted, handler>>

\* the connections are exhausted:
\* if not task.update_next_occurrence(): self.remove_task(task.id)
Recur ==
    /\ pc = "iter"
    /\ cidx > Len(connIter)
    /\ LET o2 == [obj EXCEPT ![cur] = update_next_occurrence(obj[cur])]
           t2 == IF continues(obj[cur]) THEN tasks
                 ELSE remove_task(tasks, o2, obj[cur].id)
           i2 == next_task(idx, o2[cur])
       IN  /\ tasks' = t2
           /\ disk' = IF continues(obj[cur]) THEN disk ELSE save_tasks(t2, o2)
           /\ idx' = i2
           /\ obj' = Collect(o2, t2, snapshot, i2)
           /\ orig' = Collect(orig, t2, snapshot, i2)
           /\ nfired' = CollectCount(nfired, t2, snapshot, i2)
           /\ passFired' = CollectCount(passFired, t2, snapshot, i2)
    /\ pc' = "check"
    /\ connIter' = <<>>
    /\ connAlias' = FALSE
    /\ cidx' = 1
    /\ attempted' = {}
    /\ UNCHANGED <<nextRef, conns, clk, snapshot, handler>>

Next ==
    \/ Tick
    \/ \E u \in Users, dt \in Dates, rc \in Recurrences :
          CreateTask(u, dt, rc[1], rc[2])
    \/ \E id \in 0..MaxObjs, u \in Users : DeleteTask(id, u)
    \/ \E w \in Sockets : Connect(w)
    \/ \E w \in Sockets : Disconnect(w)
    \/ Close
    \/ StartPass
    \/ PassDone
    \/ SkipTask
    \/ FireTask
    \/ SkipConn
    \/ BeginSend
    \/ SendOk
    \/ SendFail
    \/ Recur

Spec == Init /\ [][Next]_vars

\* the same program with more Task objects and fewer kinds of task: every
\* create is for the current minute, once-only or twice-repeating
IdRecurrences == {<<None, None>>, <<Some(1), Some(2)>>}

NextIds ==
    \/ Tick
    \/ \E u \in Users, rc \in IdRecurrences :
          CreateTaskUpTo(MaxIdObjs, u, now, rc[1], rc[2])
    \/ \E id \in 0..MaxIdObjs, u \in Users : DeleteTask(id, u)
    \/ \E w \in Sockets : Connect(w)
    \/ \E w \in Sockets : Disconnect(w)
    \/ Close
    \/ StartPass
    \/ PassDone
    \/ SkipTask
    \/ FireTask
    \/ SkipConn
    \/ BeginSend
    \/ SendOk
    \/ SendFail
    \/ Recur

IdSpec == Init /\ [][NextIds]_vars

\* the same program over a longer stretch of time with once-only tasks: a
\* task can be created for a later day, come due and go overdue.  Time is
\* counted only while the scheduler is suspended in an await: the code
\* between two awaits runs in no time.
StallDates == {ClockAt(i) : i \in 1..MaxStallClk}

TickAtAwait == Suspended /\ TickUpTo(MaxStallClk)

NextStall ==
    \/ TickAtAwait
    \/ \E u \in Users, dt \in StallDates : CreateTask(u, dt, None, None)
    \/ \E id \in 0..MaxObjs, u \in Users : DeleteTask(id, u)
    \/ \E w \in Sockets : Connect(w)
    \/ \E w \in Sockets : Disconnect(w)
    \/ Close
    \/ StartPass
    \/ PassDone
    \/ SkipTask
    \/ FireTask
    \/ SkipConn
    \/ BeginSend
    \/ SendOk
    \/ SendFail
    \/ Recur

StallSpec == Init /\ [][NextStall]_vars

\* ------------------------------------------- the store called directly
\* TaskManager.add_task with a Task the caller built, id included
AddTask(id, u, dt, d, r) ==
    /\ Suspended
    /\ Len(tasks) < MaxTasks
    /\ nextRef <= MaxObjs
    /\ LET t == [id |-> id, user_id |-> u, date |-> dt,
                 repeat_days |-> d, repeat_count |-> r]
       IN  /\ obj' = Append(obj, t)
           /\ orig' = Append(orig, t)
    /\ tasks' = add_task(tasks, nextRef)
    /\ disk' = save_tasks(tasks', obj')
    /\ nextRef' = nextRef + 1
    /\ nfired' = Append(nfired, 0)
    /\ passFired' = Append(passFired, 0)
    /\ UNCHANGED <<conns, clk, pc, snapshot, idx, connIter, connAlias, cidx,
                   attempted, handler>>

\* TaskManager.remove_task with any id; an id no task has is a no-op rewrite
RemoveTask(id) ==
    /\ Suspended
    /\ tasks' = remove_task(tasks, obj, id)
    /\ disk' = save_tasks(tasks', obj)
    /\ obj' = Collect(obj, tasks', snapshot, idx)
    /\ orig' = Collect(orig, tasks', snapshot, idx)
    /\ nfired' = CollectCount(nfired, tasks', snapshot, idx)
    /\ passFired' = CollectCount(passFired, tasks', snapshot, idx)
    /\ UNCHANGED <<nextRef, conns, clk, pc, snapshot, idx, connIter,
                   connAlias, cidx, attempted, handler>>

NextStore ==
    \/ \E id \in 0..MaxObjs, u \in Users, dt \in Dates, rc \in Recurrences :
          AddTask(id, u, dt, rc[1], rc[2])
    \/ \E id \in 0..MaxObjs : RemoveTask(id)

StoreSpec == Init /\ [][NextStore]_vars

\* ------------------------------------- websocket_endpoint step by step
\* websocket_endpoint of w begins: verify_user(username, password) holds
\* (ok) and the handler awaits accept(), or it does not and the handler
\* awaits websocket.close(code=4001)
WsBegin(w, ok) ==
    /\ Suspended
    /\ handler[w] = "new"
    /\ handler' = [handler EXCEPT ![w] = IF ok THEN "accepting" ELSE "closing"]
    /\ UNCHANGED <<obj, nextRef, tasks, disk, conns, clk, pc, snapshot, idx,
                   connIter, connAlias, cidx, nfired, passFired, orig,
                   attempted>>

\* ConnectionManager.connect after accept() has returned: the record is
\* appended and the handler awaits receive_text()
WsAccepted(w) ==
    /\ Suspended
    /\ handler[w] = "accepting"
    /\ conns' = Append(conns, [user_id |-> SockUser(w), websocket |-> w])
    /\ connIter' = IF connAlias THEN conns' ELSE connIter
    /\ handler' = [handler EXCEPT ![w] = "open"]
    /\ UNCHANGED <<obj, nextRef, tasks, disk, clk, pc, snapshot, idx,
                   connAlias, cidx, nfired, passFired, orig, attempted>>

\* the await the handler is suspended in raises (accept fails, the client
\* disconnects, receive_text fails) or close() returns and the handler
\* returns: finally: task_manager.disconnect(websocket)
WsFinally(w) ==
    /\ Suspended
    /\ handler[w] \in {"accepting", "closing", "open"}
    /\ conns' = WithoutSocket(conns, w)
    /\ connAlias' = FALSE
    /\ handler' = [handler EXCEPT ![w] = "done"]
    /\ UNCHANGED <<obj, nextRef, tasks, disk, clk, pc, snapshot, idx,
                   connIter, cidx, nfired, passFired, orig, attempted>>

\* the program with its websocket handlers step by step, one WebSocket
\* object per handle, and once-only tasks for the current minute
NextWs ==
    \/ Tick
    \/ \E u \in Users : CreateTask(u, now, None, None)
    \/ \E w \in Sockets, ok \in BOOLEAN : WsBegin(w, ok)
    \/ \E w \in Sockets : WsAccepted(w)
    \/ \E w \in Sockets : WsFinally(w)
    \/ Close
    \/ StartPass
    \/ PassDone
    \/ SkipTask
    \/ FireTask
    \/ SkipConn
    \/ BeginSend
    \/ SendOk
    \/ SendFail
    \/ Recur

WsSpec == Init /\ [][NextWs]_vars

\* ------------------------------------------ the callers of the queries
\* the Task objects get_tasks, get_tasks_by_user_id and get_task return
QueryResults ==
    LET all == get_tasks(tasks)
    IN  ({all[k] : k \in 1..Len(all)}
         \cup UNION {LET res == get_tasks_by_user_id(tasks, obj, u)
                     IN  {res[k] : k \in 1..Len(res)} : u \in Users}
         \cup {get_task(id) : id \in 0..MaxObjs}) \ {0}

\* a caller assigns to the date of a Task a query returned: the object is
\* the store's own, so the assignment is to the heap
EditReturned(r, dt) ==
    /\ Suspended
    /\ r \in QueryResults
    /\ obj[r].date # dt
    /\ obj' = [obj EXCEPT ![r].date = dt]
    /\ UNCHANGED <<nextRef, tasks, disk, conns, clk, pc, snapshot, idx,
                   connIter, connAlias, cidx, nfired, passFired, orig,
                   attempted, handler>>

NextQuery ==
    \/ \E u \in Users, dt \in Dates, rc \in Recurrences :
          CreateTask(u, dt, rc[1], rc[2])
    \/ \E id \in 0..MaxObjs, u \in Users : DeleteTask(id, u)
    \/ \E r \in 1..MaxObjs, dt \in Dates : EditReturned(r, dt)

QuerySpec == Init /\ [][NextQuery]_vars

\* ------------------------------------------------ the calendar on its own
\* the dates add_days is applied to: the first and the last days of every
\* month of a common year, a leap year, a leap century year and a common
\* century year, early and late in the day
CalDates ==
    {TaskDate(y, m, d, hm[1], hm[2]) :
        y \in {2000, 2023, 2024, 2100}, m \in 1..12,
        d \in {1, 28, 29, 30, 31}, hm \in {<<9, 0>>, <<23, 59>>}}

\* datetime(...) raises ValueError for a day the month does not have
ValidDate(td) == td.day <= DaysInMonth(td.year, td.month)

\* the repeat intervals: the small ones, a month's worth and a leap year's
Intervals == (1..MaxDays) \cup {31, 366}

\* a store holding one task that repeats for ever
InitDates ==
    /\ \E dt \in {c \in CalDates : ValidDate(c)}, d \in Intervals :
          LET t == [id |-> 0, user_id |-> 1, date |-> dt,
                    repeat_days |-> Some(d), repeat_count |-> None]
          IN  /\ obj = <<t>>
              /\ orig = <<t>>
              /\ disk = <<to_dict(t)>>
    /\ nextRef = 2
    /\ tasks = <<1>>
    /\ conns = <<>>
    /\ clk = 1
    /\ pc = "sleep"
    /\ snapshot = <<>>
    /\ idx = 1
    /\ connIter = <<>>
    /\ connAlias = FALSE
    /\ cidx = 1
    /\ nfired = <<0>>
    /\ passFired = <<0>>
    /\ attempted = {}
    /\ handler = [w \in Sockets |-> "new"]

\* task.update_next_occurrence() on the task, which calls
\* self.date.add_days(self.repeat_days)
Advance ==
    /\ nfired[1] < MaxAdvances
    /\ obj' = [obj EXCEPT ![1] = update_next_occurrence(obj[1])]
    /\ nfired' = [nfired EXCEPT ![1] = @ + 1]
    /\ UNCHANGED <<nextRef, tasks, disk, conns, clk, pc, snapshot, idx,
                   connIter, connAlias, cidx, passFired, orig, attempted,
                   handler>>

NextDates == Advance

DateSpec == InitDates /\ [][NextDates]_vars

\* ------------------------------------------------------------- properties
\* the scheduler is delivering task r: between finding it TIMEUP and the
\* recurrence step
InFiring(r) == pc \in {"iter", "send"} /\ cur = r

HasInterval(t) == ~IsNone(t.repeat_days)
HasCount(t) == ~IsNone(t.repeat_count)

\* the store holds no id twice
UniqueIds ==
    \A i, j \in 1..Len(tasks) : obj[tasks[i]].id = obj[tasks[j]].id => i = j

\* C1: a task with no repeat interval that the scheduler has fired does not
\* outlive its firing, whatever the sends did: once the scheduler is no
\* longer delivering it, it is not in the store, so the next pass cannot
\* find it there.
C1_FiredOnceThenAbsent ==
    pc # "cancelled" =>
        \A r \in StoreRefs :
            (~HasInterval(obj[r]) /\ nfired[r] > 0) => InFiring(r)

\* C2: a task created with a repeat interval and a count N fires at most N
\* times, and once its Nth firing is over its count is <= 0 and it is not
\* in the store.
C2_FiresAtMostN ==
    \A r \in 1..Len(obj) :
        (HasInterval(orig[r]) /\ HasCount(orig[r])) =>
            /\ nfired[r] <= Val(orig[r].repeat_count)
            /\ (nfired[r] >= 1 /\ nfired[r] = Val(orig[r].repeat_count)
                    /\ ~InFiring(r) /\ pc # "cancelled")
                 => (Val(obj[r].repeat_count) <= 0 /\ r \notin StoreRefs)

\* C3: when a firing has ended on a failed send, every connection of the
\* owner that the firing iterated over and that is still registered has had
\* a send attempted on it.
C3_FailedSendIsolated ==
    pc = "dead" =>
        (SocketsOfUser(connIter, obj[cur].user_id)
            \cap SocketsOfUser(conns, obj[cur].user_id)) \subseteq attempted

\* C4: a failed send never ends the scheduler loop.
C4_LoopSurvivesFailedSend == pc # "dead"

\* C5: between operations the file holds exactly what _save_tasks would
\* write for the store in memory.
C5_DiskEqualsMemory == disk = save_tasks(tasks, obj)

\* C6: every create assigns 0 to the first task of an empty store and
\* otherwise one more than the largest id in the store, and the store never
\* holds an id twice.
C6_IdsMaxPlusOneAndUnique ==
    [][/\ (nextRef' = nextRef + 1) =>
             LET id == obj'[nextRef].id
             IN  /\ \A i \in StoreIds : i < id
                 /\ (id = 0 /\ StoreIds = {}) \/ (id - 1) \in StoreIds
       /\ UniqueIds']_vars

\* a store that has lost its first task to a delete or a firing, holds one
\* that has fired and stayed, and one created after the loss: the newest id
\* is one more than the largest, not the number of tasks
C6_Witness ==
    /\ Len(tasks) = 2
    /\ nfired[tasks[1]] > 0
    /\ obj[tasks[1]].id > 0
    /\ obj[tasks[2]].id = obj[tasks[1]].id + 1

\* C7: add_task with an id some task of the store already has leaves the
\* store and the file as they were.
C7_CollidingAddRejected ==
    [][(nextRef' = nextRef + 1 /\ obj'[nextRef].id \in StoreIds)
          => (tasks' = tasks /\ disk' = disk)]_vars

\* the sockets a send has completed on in the firing that close() cut short
SentBeforeCancel ==
    IF attempted = {} THEN {} ELSE attempted \ {connIter[cidx].websocket}

\* C8: when close() has stopped the loop, no firing was cut between a
\* completed send and its recurrence step, and the file equals the store.
C8_StopOnlyAtCheckpoint ==
    pc = "cancelled" =>
        /\ SentBeforeCancel = {}
        /\ disk = save_tasks(tasks, obj)

\* C9: no task fires twice in one pass.
C9_AtMostOnePerPass == \A r \in 1..Len(passFired) : passFired[r] <= 1

\* a task that fired in this pass, was advanced to a date that is not in
\* the future, and has been passed by the scheduler
C9_Witness ==
    /\ pc = "check"
    /\ \E k \in 1..(idx - 1) :
          /\ k <= Len(snapshot)
          /\ passFired[snapshot[k]] = 1
          /\ HasInterval(obj[snapshot[k]])
          /\ time_check(obj[snapshot[k]]) # "PENDING"

\* the scheduler leaves the delivery of the task it fired, other than by
\* close()
FiringEnds == pc \in {"iter", "send"} /\ pc' \in {"check", "dead"}

\* C10: a firing of a task with interval d and count r moves its date d
\* days on and leaves r - 1; the firing does not take the task out of the
\* store if r - 1 > 0, and the task is not in the store otherwise.
C10_FiringAdvances ==
    [][(FiringEnds /\ HasInterval(obj[cur]) /\ HasCount(obj[cur])) =>
          LET t == obj[cur]
              r == cur
          IN  IF Val(t.repeat_count) - 1 > 0
              THEN /\ to_datetime(obj'[r].date)
                         = to_datetime(t.date) + Val(t.repeat_days) * 24 * 60
                   /\ obj'[r].repeat_count = Some(Val(t.repeat_count) - 1)
                   /\ tasks' = tasks
              ELSE r \notin {tasks'[k] : k \in 1..Len(tasks')}]_vars

\* the length of month m of year y, from the Gregorian table
MonthLength(y, m) ==
    LET leap == IF y % 400 = 0 THEN TRUE
                ELSE IF y % 100 = 0 THEN FALSE
                ELSE y % 4 = 0
    IN  <<31, IF leap THEN 29 ELSE 28, 31, 30, 31, 30,
          31, 31, 30, 31, 30, 31>>[m]

\* the same time on the first day of the next month
NextMonth(td) ==
    IF td.month < 12
    THEN [td EXCEPT !.month = td.month + 1, !.day = 1]
    ELSE [td EXCEPT !.year = td.year + 1, !.month = 1, !.day = 1]

RECURSIVE DaysLater(_, _)
\* the same time d calendar days later: counted out within the month while
\* the month has days left, and from the first of the next month otherwise
DaysLater(td, d) ==
    LET left == MonthLength(td.year, td.month) - td.day
    IN  IF d <= left THEN [td EXCEPT !.day = td.day + d]
        ELSE DaysLater(NextMonth(td), d - left - 1)

C12_ListByUserExact ==
    \A u \in Users :
        LET res == get_tasks_by_user_id(tasks, obj, u)
        IN  /\ \A k \in 1..Len(res) :
                  res[k] \in StoreRefs /\ obj[res[k]].user_id = u
            /\ \A r \in StoreRefs :
                  obj[r].user_id = u => \E k \in 1..Len(res) : res[k] = r
            /\ \A j, k \in 1..Len(res) : j < k => res[j] < res[k]

\* a store of two tasks of two users, the first of which has fired and
\* stayed: each user's list is one task of the two
C12_Witness ==
    /\ Len(tasks) = 2
    /\ obj[tasks[1]].user_id # obj[tasks[2]].user_id
    /\ nfired[tasks[1]] > 0
    /\ Len(get_tasks_by_user_id(tasks, obj, obj[tasks[2]].user_id)) = 1

\* C13: when the scheduler leaves the delivery of a task, every connection
\* of the task's owner that the firing iterated over and that is still
\* registered has had a send attempted on it, and no connection of another
\* user has; and the evaluation of a task that is not TIMEUP starts no
\* delivery.
C13_DeliveryToOwnerOnly ==
    [][/\ FiringEnds =>
             LET u == obj[cur].user_id
             IN  /\ (SocketsOfUser(connIter, u) \cap SocketsOfUser(conns, u))
                        \subseteq attempted
                 /\ \A w \in attempted : SockUser(w) = u
       /\ (pc = "check" /\ idx <= Len(snapshot)
              /\ time_check(obj[cur]) # "TIMEUP")
             => (pc' \notin {"iter", "send"} /\ attempted' = attempted)]_vars

\* C14: nothing a caller does with the result of a query changes a task of
\* the store: a step that adds or removes no task leaves every task of the
\* store as it was, and after every step the file holds what _save_tasks
\* would write for the store in memory.
C14_QueryResultsAreCopies ==
    [][/\ (tasks' = tasks) => \A r \in StoreRefs : obj'[r] = obj[r]
       /\ disk' = save_tasks(tasks', obj')]_vars

\* C15: while the first send of a firing is pending, no other task of the
\* store that came due after that firing began has gone overdue without
\* being fired.
C15_PendingSendDoesNotStarve ==
    (pc = "send" /\ Cardinality(attempted) = 1) =>
        \A r \in StoreRefs \ {cur} :
            ~ /\ nfired[r] = 0
              /\ DateLt(obj[cur].date, obj[r].date)
              /\ DateLt(obj[r].date, now)

\* the sockets the firing under way has attempted or will attempt if every
\* send returns: the owner's records from the iterator's position on
WillAttempt ==
    attempted \cup
        {connIter[k].websocket :
            k \in {j \in cidx..Len(connIter) :
                      connIter[j].user_id = obj[cur].user_id}}

\* C16: a connect or a disconnect that happens while a firing is suspended
\* in a send leaves the set of connections that firing attempts as it was.
C16_AttemptsAreASnapshot ==
    [][(pc = "send" /\ pc' = "send" /\ conns' # conns)
          => WillAttempt' = WillAttempt]_vars

\* the date of t lies before the current minute
Overdue(t) == to_datetime(t.date) < to_datetime(now)

\* C17: the evaluation of a task whose date has passed starts no delivery
\* and moves on to the next task, leaving the store, the file and every
\* task of the store as they were; and a task of the store whose date has
\* passed and that is not being delivered keeps its date, its count and its
\* number of firings for as long as it is in the store.
C17_OutdatedUntouched ==
    [][/\ (pc = "check" /\ idx <= Len(snapshot) /\ Overdue(obj[cur])
              /\ clk' = clk)
             => /\ pc' = "check" /\ idx' = idx + 1
                /\ attempted' = attempted
                /\ tasks' = tasks /\ disk' = disk
                /\ \A r \in StoreRefs :
                      obj'[r] = obj[r] /\ nfired'[r] = nfired[r]
       /\ \A r \in StoreRefs :
             (Overdue(obj[r]) /\ ~InFiring(r)
                 /\ r \in {tasks'[k] : k \in 1..Len(tasks')})
               => (obj'[r] = obj[r] /\ nfired'[r] = nfired[r])]_vars

\* the scheduler has evaluated and passed a task of the store that was
\* created for the first day on a later day and has never fired
C17_Witness ==
    /\ pc = "check"
    /\ idx > 1 /\ idx - 1 <= Len(snapshot)
    /\ LET r == snapshot[idx - 1]
       IN  /\ r \in StoreRefs
           /\ obj[r].date = ClockAt(1)
           /\ Overdue(obj[r])
           /\ nfired[r] = 0

\* C18: a step of the scheduler (one that moves the loop coroutine, which no
\* request handler does) takes a task out of the store only if that task
\* is the one whose firing it ends.
C18_SchedulerRemovesOnlyFired ==
    [][pc' # pc =>
          \A r \in StoreRefs :
              r \notin {tasks'[k] : k \in 1..Len(tasks')}
                 => (r = cur /\ nfired[r] > 0)]_vars

\* C19: the scheduler enters a send only for a task that is in the store.  A
\* task of the snapshot that has not been evaluated to the end leaves the
\* store only by an owner's delete, so a send entered for a task that is
\* not in the store is a notification sent after its delete completed.
C19_NoSendAfterDelete ==
    [][(pc = "iter" /\ pc' = "send") => cur \in StoreRefs]_vars

\* C20: every record of the registry is of a websocket whose handler has
\* verified its user, been accepted and is waiting in receive_text, and no
\* websocket has two records: a handler that was refused, is still being
\* accepted or has ended has no record.
C20_RegistryHoldsRunningHandlers ==
    /\ \A k \in 1..Len(conns) : handler[conns[k].websocket] = "open"
    /\ \A j, k \in 1..Len(conns) :
          conns[j].websocket = conns[k].websocket => j = k

\* one handler has ended and has no record, the other is registered, while
\* the scheduler is suspended in a send that iterates a list the ended
\* handler's disconnect has replaced
C20_Witness ==
    /\ \E w, v \in Sockets :
          /\ handler[w] = "done" /\ w \notin SocketsOf(conns)
          /\ w \in SocketsOf(connIter)
          /\ handler[v] = "open" /\ v \in SocketsOf(conns)
    /\ pc = "send"

====
